---- MODULE Spec2Model ----
(***************************************************************************)
(* Churn-prediction workflow: the migration utility (migrate_database.py), *)
(* the synthetic data generator (generate_data.py), the training pipeline  *)
(* (train_model.py) and the Streamlit dashboard (dashboard.py).            *)
(* The four programs are independent processes; each has its own           *)
(* specification over its own variables.                                   *)
(***************************************************************************)
EXTENDS Integers, Sequences, FiniteSets, TLC

\* ------------------------------------------------------------------ bounds
\* Largest number of whitespace characters typed around the destination URL.
MaxPad == 1

VARIABLES
    \* migrate_database.py
    mig_pc,            \* position in migrate_database()
    source_password,   \* what the operator typed at the first prompt
    source_url,        \* the connection string built at line 21
    dest_input,        \* what the operator typed at the second prompt
    dest_url,          \* dest_input.strip()
    mig_attempted,     \* steps of the try block entered so far, in order
    mig_done,          \* steps of the try block completed so far, in order
    mig_failed,        \* the step that raised, or "none"
    mig_out,           \* what has been printed
    mig_exit,          \* exit status, "running" while the process lives
    dest_db,           \* destination tables: customers, ml_features
    \* train_model.py
    train_pc,          \* position in main()
    train_done,        \* stages and writes completed so far, in order
    train_failed,      \* the stage or write that raised, or "none"
    train_out,         \* what has been printed
    train_exit,        \* exit status, "running" while the process lives
    artifacts,         \* the four artifact files on disk
    \* generate_data.py
    gen_pc,            \* position in the script
    gen_row,           \* one customer of the generated population
    churn_probability, \* that customer's churn probability, in hundredths
    gen_churned,       \* that customer's sampled churned flag
    gen_done,          \* statements of the try block completed so far
    gen_failed,        \* the statement that raised, or "none"
    gen_db,            \* the customers table of the local database
    gen_csv,           \* customers_data.csv on disk
    gen_out,           \* what has been printed
    gen_exit,          \* exit status, "running" while the process lives
    \* dashboard.py: one computation of a page, applied to one input
    fn_pc,             \* "called" before the computation, "returned" after
    fn_call,           \* the computation and its argument
    fn_result,         \* <<>> before the computation, <<value>> after
    \* dashboard.py: the running process
    dash_pc,           \* position in the script, "idle" between two passes
    passes,            \* execution passes started so far
    widgets,           \* session state: selected page, form values, button
    ui,                \* elements rendered by the current pass
    pass_result,       \* how the last pass ended
    failed_load,       \* the load that failed in the current pass, or "none"
    art_cache,         \* st.cache_resource entry of load_model_artifacts
    data_cache,        \* st.cache_data entry of load_data_from_db
    art_loads,         \* executions of the body of load_model_artifacts
    db_queries,        \* executions of the body of load_data_from_db
    metrics,           \* script global: the confusion matrix of the metrics report
    df_customers,      \* script global
    df_ml,             \* script global
    page_out,          \* <<>>, or <<what the selected page computed>>
    segment_passes     \* passes that added the segment columns to df_customers

migVars == <<mig_pc, source_password, source_url, dest_input, dest_url,
             mig_attempted, mig_done, mig_failed, mig_out, mig_exit, dest_db>>

trainVars == <<train_pc, train_done, train_failed, train_out, train_exit, artifacts>>

genVars == <<gen_pc, gen_row, churn_probability, gen_churned, gen_done, gen_failed, gen_db, gen_csv, gen_out, gen_exit>>

fnVars == <<fn_pc, fn_call, fn_result>>

dashVars == <<dash_pc, passes, widgets, ui, pass_result, failed_load, art_cache,
              data_cache, art_loads, db_queries, metrics, df_customers, df_ml, page_out,
              segment_passes>>

vars == <<migVars, trainVars, genVars, fnVars, dashVars>>

\* Everything but one program's variables: the programs share no memory.
notMig == <<trainVars, genVars, fnVars, dashVars>>

notTrain == <<migVars, genVars, fnVars, dashVars>>

notGen == <<migVars, trainVars, fnVars, dashVars>>

notFn == <<migVars, trainVars, genVars, dashVars>>

notDash == <<migVars, trainVars, genVars, fnVars>>

\* No connection string built yet.
NoUrl == [user |-> "unset", password |-> "unset", host |-> "unset", database |-> "unset"]

\* A program that is not running. Exit statuses are "0", "1" or "running".
IdleMigrate ==
    /\ mig_pc = "off"
    /\ source_password = "unset"
    /\ source_url = NoUrl
    /\ dest_input = <<>>
    /\ dest_url = <<>>
    /\ mig_attempted = <<>>
    /\ mig_done = <<>>
    /\ mig_failed = "none"
    /\ mig_out = {}
    /\ mig_exit = "running"
    /\ dest_db = [customers |-> "absent", ml_features |-> "absent"]

IdleTrain ==
    /\ train_pc = "off"
    /\ train_done = <<>>
    /\ train_failed = "none"
    /\ train_out = {}
    /\ train_exit = "running"
    /\ artifacts = [f \in {"churn_model.pkl", "scaler.pkl", "model_metrics.json",
                            "feature_importance.csv"} |-> "absent"]

IdleGenerate ==
    /\ gen_pc = "off"
    /\ gen_row = [contract_type |-> "unset", payment_method |-> "unset", tenure |-> 0,
                  monthly_charges |-> 0, online_security |-> "unset",
                  tech_support |-> "unset"]
    /\ churn_probability = -1
    /\ gen_churned = FALSE
    /\ gen_done = <<>>
    /\ gen_failed = "none"
    /\ gen_db = "absent"
    /\ gen_csv = "absent"
    /\ gen_out = {}
    /\ gen_exit = "running"

IdleFunctions ==
    /\ fn_pc = "off"
    /\ fn_call = [fn |-> "none", arg |-> 0]
    /\ fn_result = <<>>

\* A data frame of customers: its rows and, once the Customer Segments page
\* has added them, the two segment columns.
EmptyFrame == [rows |-> <<>>, has_segments |-> FALSE, segments |-> <<>>]

NoMatrix == << <<0, 0>>, <<0, 0>> >>

NoForm ==
    [tenure |-> 12, monthly_charges |-> 7000, total_charges |-> 84000,
     contract_type |-> "Month-to-month", payment_method |-> "Electronic check",
     has_fiber |-> FALSE, has_online_security |-> FALSE, has_tech_support |-> FALSE,
     has_streaming |-> FALSE, paperless_billing |-> FALSE]

IdleDashboard ==
    /\ dash_pc = "off"
    /\ passes = 0
    /\ widgets = [page |-> "overview", form |-> NoForm, button |-> FALSE]
    /\ ui = {}
    /\ pass_result = "none"
    /\ failed_load = "none"
    /\ art_cache = [loaded |-> FALSE, metrics |-> NoMatrix]
    /\ data_cache = [loaded |-> FALSE, df_customers |-> EmptyFrame, df_ml |-> <<>>]
    /\ art_loads = 0
    /\ db_queries = 0
    /\ metrics = NoMatrix
    /\ df_customers = EmptyFrame
    /\ df_ml = <<>>
    /\ page_out = <<>>
    /\ segment_passes = 0

\* ------------------------------------------------------------ text helpers
\* Strings that are inspected character by character are tuples of characters.
Whitespace == {" ", "\t", "\n"}

RECURSIVE LStrip(_)
LStrip(s) == IF s # <<>> /\ Head(s) \in Whitespace THEN LStrip(Tail(s)) ELSE s

RECURSIVE RStrip(_)
RStrip(s) ==
    IF s # <<>> /\ s[Len(s)] \in Whitespace
    THEN RStrip(SubSeq(s, 1, Len(s) - 1))
    ELSE s

\* str.strip()
Strip(s) == LStrip(RStrip(s))

\* str.startswith(p)
StartsWith(s, p) == Len(s) >= Len(p) /\ SubSeq(s, 1, Len(p)) = p

\* ------------------------------------------------- migrate_database.py
PostgresqlPrefix == <<"p","o","s","t","g","r","e","s","q","l",":","/","/">>

Passwords == {"learn", "hunter2"}

Schemes ==
    { PostgresqlPrefix,
      <<"p","o","s","t","g","r","e","s",":","/","/">>,
      <<"p","o","s","t","g","r","e","s","q","l",":","/">>,
      <<"P","o","s","t","g","r","e","s","q","l",":","/","/">>,
      <<"m","y","s","q","l",":","/","/">>,
      <<>> }

Rests == { <<>>, <<"h">>, <<"h", " ", "d">> }

RECURSIVE Pad(_)
Pad(k) == IF k = 0 THEN <<>> ELSE <<" ">> \o Pad(k - 1)

\* What the operator can type at the "Cloud database URL: " prompt.
DestInputs ==
    { Pad(a) \o s \o r \o Pad(b) : a \in 0..MaxPad, b \in 0..MaxPad,
                                   s \in Schemes, r \in Rests }

\* The statements of the try block, in program order.
MigSteps == << "connect_source", "connect_dest",
               "read_customers", "write_customers",
               "read_ml", "write_ml",
               "verify_customers", "verify_ml",
               "summary", "snippet" >>

MigStepSet == { MigSteps[i] : i \in 1..Len(MigSteps) }

StepIndex(step) == CHOOSE i \in 1..Len(MigSteps) : MigSteps[i] = step

AfterStepSkipVerify(step) ==
    IF step = "write_ml" THEN "summary"
    ELSE IF StepIndex(step) = Len(MigSteps) THEN "return"
    ELSE MigSteps[StepIndex(step) + 1]

\* The statement the try block goes on with once `step` has completed.
AfterStep(step) ==
    IF StepIndex(step) = Len(MigSteps) THEN "return"
    ELSE MigSteps[StepIndex(step) + 1]

\* line 21: an f-string with no placeholder; the typed password is not used.
LocalUrl(pw) ==
    [user |-> "postgres", password |-> "learn", host |-> "localhost", database |-> "churn_db"]

AcceptAnyUrl(url) == TRUE

\* line 29: the test that lets the run go on.
UrlAccepted(url) == StartsWith(url, PostgresqlPrefix)

InitMigrate ==
    /\ mig_pc = "prompt_password"
    /\ source_password = "unset"
    /\ source_url = NoUrl
    /\ dest_input = <<>>
    /\ dest_url = <<>>
    /\ mig_attempted = <<>>
    /\ mig_done = <<>>
    /\ mig_failed = "none"
    /\ mig_out = {}
    /\ mig_exit = "running"
    /\ dest_db \in [customers : {"absent", "previous"}, ml_features : {"absent", "previous"}]
    /\ IdleTrain
    /\ IdleGenerate
    /\ IdleFunctions
    /\ IdleDashboard

\* lines 18-21
MigPromptPassword ==
    /\ mig_pc = "prompt_password"
    /\ \E pw \in Passwords :
          /\ source_password' = pw
          /\ source_url' = LocalUrl(pw)
    /\ mig_pc' = "prompt_url"
    /\ UNCHANGED <<dest_input, dest_url, mig_attempted, mig_done, mig_failed,
                   mig_out, mig_exit, dest_db>>
    /\ UNCHANGED notMig

\* lines 23-27
MigPromptUrl ==
    /\ mig_pc = "prompt_url"
    /\ \E typed \in DestInputs :
          /\ dest_input' = typed
          /\ dest_url' = Strip(typed)
    /\ mig_pc' = "validate"
    /\ UNCHANGED <<source_password, source_url, mig_attempted, mig_done, mig_failed,
                   mig_out, mig_exit, dest_db>>
    /\ UNCHANGED notMig

\* lines 29-35
MigValidate ==
    /\ mig_pc = "validate"
    /\ IF ~UrlAccepted(dest_url)
       THEN /\ mig_out' = mig_out \cup {"url_error"}
            /\ mig_exit' = "1"
            /\ mig_pc' = "exited"
       ELSE /\ mig_out' = mig_out \cup {"starting"}
            /\ mig_exit' = mig_exit
            /\ mig_pc' = MigSteps[1]
    /\ UNCHANGED <<source_password, source_url, dest_input, dest_url,
                   mig_attempted, mig_done, mig_failed, dest_db>>
    /\ UNCHANGED notMig

\* The destination after a step that completed.
DestAfterOk(step) ==
    CASE step = "write_customers" -> [dest_db EXCEPT !.customers = "migrated"]
      [] step = "write_ml"        -> [dest_db EXCEPT !.ml_features = "migrated"]
      [] OTHER                    -> dest_db

\* The destinations a step that raised can leave: to_sql(if_exists='replace')
\* drops the table before it inserts, and whether the drop is rolled back
\* depends on the pandas version.
DestAfterRaise(step) ==
    CASE step = "write_customers" ->
             { dest_db, [dest_db EXCEPT !.customers = "absent"] }
      [] step = "write_ml" ->
             { dest_db, [dest_db EXCEPT !.ml_features = "absent"] }
      [] OTHER -> { dest_db }

OutAfterOk(step) ==
    CASE step = "summary" -> mig_out \cup {"summary"}
      [] step = "snippet" -> mig_out \cup {"snippet"}
      [] OTHER            -> mig_out

\* lines 37-94: one statement group of the try block; it completes or raises.
MigStep ==
    /\ mig_pc \in MigStepSet
    /\ mig_attempted' = Append(mig_attempted, mig_pc)
    /\ \/ /\ mig_done' = Append(mig_done, mig_pc)
          /\ dest_db' = DestAfterOk(mig_pc)
          /\ mig_out' = OutAfterOk(mig_pc)
          /\ mig_pc' = AfterStep(mig_pc)
          /\ UNCHANGED mig_failed
       \/ /\ mig_failed' = mig_pc
          /\ dest_db' \in DestAfterRaise(mig_pc)
          /\ mig_pc' = "except"
          /\ UNCHANGED <<mig_done, mig_out>>
    /\ UNCHANGED <<source_password, source_url, dest_input, dest_url, mig_exit>>
    /\ UNCHANGED notMig

\* lines 96-103
MigExcept ==
    /\ mig_pc = "except"
    /\ mig_out' = mig_out \cup {"error", "troubleshooting"}
    /\ mig_exit' = "1"
    /\ mig_pc' = "exited"
    /\ UNCHANGED <<source_password, source_url, dest_input, dest_url,
                   mig_attempted, mig_done, mig_failed, dest_db>>
    /\ UNCHANGED notMig

\* lines 105-106: migrate_database() returned; the interpreter exits 0.
MigReturn ==
    /\ mig_pc = "return"
    /\ mig_exit' = "0"
    /\ mig_pc' = "exited"
    /\ UNCHANGED <<source_password, source_url, dest_input, dest_url,
                   mig_attempted, mig_done, mig_failed, mig_out, dest_db>>
    /\ UNCHANGED notMig

NextMigrate ==
    \/ MigPromptPassword
    \/ MigPromptUrl
    \/ MigValidate
    \/ MigStep
    \/ MigExcept
    \/ MigReturn

SpecMigrate == InitMigrate /\ [][NextMigrate]_vars

\* Positions at which both prompts have been answered.
MigPrompted == mig_pc \notin {"off", "prompt_password", "prompt_url"}

\* C1 as stated: whatever was typed at the URL prompt, if it does not start
\* with 'postgresql://' the run ends with status 1 and no statement of the try
\* block (connection, read or write) is ever entered.
C1_AsStated ==
    (MigPrompted /\ ~StartsWith(dest_input, PostgresqlPrefix)) =>
        /\ mig_attempted = <<>>
        /\ mig_pc \in {"validate", "exited"}
        /\ mig_pc = "exited" => mig_exit = "1"

\* C1 amended: the test is made on the typed text with its surrounding
\* whitespace removed. If the stripped URL does not start with 'postgresql://'
\* the run ends with status 1 after the URL error message, and no statement of
\* the try block (connection, read or write) is ever entered.
C1_RejectsStrippedUrl ==
    (MigPrompted /\ ~StartsWith(dest_url, PostgresqlPrefix)) =>
        /\ mig_attempted = <<>>
        /\ mig_done = <<>>
        /\ mig_pc \in {"validate", "exited"}
        /\ mig_pc = "exited" => (mig_exit = "1" /\ "url_error" \in mig_out)

C1_Witness ==
    /\ mig_pc = "exited"
    /\ mig_exit = "1"
    /\ "url_error" \in mig_out
    /\ ~StartsWith(dest_url, PostgresqlPrefix)
    /\ dest_url # <<>>

\* C6: a run with an accepted URL exits 0 and has printed the configuration
\* snippet only when every statement of the try block completed, in program
\* order (connect source, connect destination, copy customers, copy
\* ml_features, both row counts); a statement that raises is the last one
\* entered, and the run then ends with status 1 and the troubleshooting list.
C6_OrderedOrAborted ==
    /\ \E n \in 0..Len(MigSteps) : mig_done = SubSeq(MigSteps, 1, n)
    /\ mig_exit = "0" => (mig_done = MigSteps /\ "snippet" \in mig_out /\ mig_failed = "none")
    /\ "snippet" \in mig_out => SubSeq(mig_done, 1, 8) = SubSeq(MigSteps, 1, 8)
    /\ mig_failed # "none" =>
          /\ mig_attempted = SubSeq(MigSteps, 1, StepIndex(mig_failed))
          /\ mig_done = SubSeq(MigSteps, 1, StepIndex(mig_failed) - 1)
          /\ mig_pc \in {"except", "exited"}
          /\ mig_pc = "exited" => (mig_exit = "1" /\ "troubleshooting" \in mig_out)

C6_Witness ==
    /\ mig_pc = "exited"
    /\ mig_failed = "verify_customers"
    /\ mig_exit = "1"
    /\ "troubleshooting" \in mig_out
    /\ dest_db.ml_features = "migrated"

\* ------------------------------------------------------- train_model.py
ArtifactFiles == {"churn_model.pkl", "scaler.pkl", "model_metrics.json",
                  "feature_importance.csv"}

\* The stages of main() in program order; the persist stage
\* (save_model_artifacts) is its four writes.
TrainSteps == << "load", "preprocess", "split_scale", "train", "evaluate",
                 "save_model", "save_scaler", "save_metrics", "save_importance",
                 "banner" >>

TrainStepSet == { TrainSteps[i] : i \in 1..Len(TrainSteps) }

TrainIndex(step) == CHOOSE i \in 1..Len(TrainSteps) : TrainSteps[i] = step

AfterTrainStep(step) ==
    IF TrainIndex(step) = Len(TrainSteps) THEN "return"
    ELSE TrainSteps[TrainIndex(step) + 1]

\* The file a step of save_model_artifacts writes.
FileOf(step) ==
    CASE step = "save_model"      -> "churn_model.pkl"
      [] step = "save_scaler"     -> "scaler.pkl"
      [] step = "save_metrics"    -> "model_metrics.json"
      [] step = "save_importance" -> "feature_importance.csv"

SaveSteps == {"save_model", "save_scaler", "save_metrics", "save_importance"}

\* The six stages of the pipeline have all completed.
SixStagesDone ==
    \A i \in 1..9 : \E j \in 1..Len(train_done) : train_done[j] = TrainSteps[i]

InitTrain ==
    /\ train_pc = TrainSteps[1]
    /\ train_done = <<>>
    /\ train_failed = "none"
    /\ train_out = {}
    /\ train_exit = "running"
    /\ artifacts \in [ArtifactFiles -> {"absent", "previous"}]
    /\ IdleMigrate
    /\ IdleGenerate
    /\ IdleFunctions
    /\ IdleDashboard

\* lines 213-238: one stage (or one write of the persist stage) of the try
\* block; it completes or raises. A write that raises leaves its file as it
\* was or partly written.
TrainStep ==
    /\ train_pc \in TrainStepSet
    /\ \/ /\ train_done' = Append(train_done, train_pc)
          /\ artifacts' = IF train_pc \in SaveSteps
                          THEN [artifacts EXCEPT ![FileOf(train_pc)] = "this_run"]
                          ELSE artifacts
          /\ train_out' = IF train_pc = "banner"
                          THEN train_out \cup {"completed"}
                          ELSE train_out
          /\ train_pc' = AfterTrainStep(train_pc)
          /\ UNCHANGED train_failed
       \/ /\ train_failed' = train_pc
          /\ artifacts' \in IF train_pc \in SaveSteps
                            THEN { artifacts,
                                   [artifacts EXCEPT ![FileOf(train_pc)] = "partial"] }
                            ELSE { artifacts }
          /\ train_pc' = "except"
          /\ UNCHANGED <<train_done, train_out>>
    /\ UNCHANGED train_exit
    /\ UNCHANGED notTrain

\* lines 240-243: the handler prints the error and the traceback and falls
\* through; it neither re-raises nor calls sys.exit.
TrainExcept ==
    /\ train_pc = "except"
    /\ train_out' = train_out \cup {"error", "traceback"}
    /\ train_pc' = "return"
    /\ UNCHANGED <<train_done, train_failed, train_exit, artifacts>>
    /\ UNCHANGED notTrain

\* lines 245-246: main() returned; the interpreter exits 0.
TrainReturn ==
    /\ train_pc = "return"
    /\ train_exit' = "0"
    /\ train_pc' = "exited"
    /\ UNCHANGED <<train_done, train_failed, train_out, artifacts>>
    /\ UNCHANGED notTrain

NextTrain ==
    \/ TrainStep
    \/ TrainExcept
    \/ TrainReturn

SpecTrain == InitTrain /\ [][NextTrain]_vars

\* C4: the process exits 0 only if all six stages completed, and a run in
\* which a stage raised has printed the trace and ends with a non-zero status.
C4_ExitStatusReflectsOutcome ==
    /\ train_exit = "0" => SixStagesDone
    /\ (train_failed # "none" /\ train_pc = "exited") =>
          ("traceback" \in train_out /\ train_exit # "0")

\* ------------------------------------------------------ generate_data.py
\* Money is in cents and probabilities are in hundredths, so that the
\* comparisons and sums of the script are exact.
ContractTypes == {"Month-to-month", "One year", "Two year"}

PaymentMethods == {"Electronic check", "Mailed check", "Bank transfer", "Credit card"}

ServiceAnswers == {"Yes", "No", "No internet service"}

\* Values of np.random.randint(1, 72) on both sides of the test at line 37.
GenTenures == {11, 12, 71}

\* Values of np.random.uniform(20, 120).round(2) on both sides of the test at
\* line 38, in cents.
GenCharges == {2000, 8000, 8001}

GenRows ==
    [contract_type : ContractTypes, payment_method : PaymentMethods,
     tenure : GenTenures, monthly_charges : GenCharges,
     online_security : ServiceAnswers, tech_support : ServiceAnswers]

\* (condition).astype(int)
AsInt(b) == IF b THEN 1 ELSE 0

\* np.clip(x, lo, hi)
Clip(x, lo, hi) == IF x < lo THEN lo ELSE IF x > hi THEN hi ELSE x

\* lines 33-41
RawChurnProbability(row) ==
    10
    + 30 * AsInt(row.contract_type = "Month-to-month")
    + 20 * AsInt(row.payment_method = "Electronic check")
    + 15 * AsInt(row.tenure < 12)
    + 10 * AsInt(row.monthly_charges > 8000)
    - 20 * AsInt(row.online_security = "Yes")
    - 15 * AsInt(row.tech_support = "Yes")

ChurnProbabilityUnclipped(row) == RawChurnProbability(row)

\* lines 33-42
ChurnProbability(row) == Clip(RawChurnProbability(row), 0, 80)

\* The statements of the try block, in program order.
GenSteps == << "create_engine", "to_sql", "verify" >>

GenStepSet == { GenSteps[i] : i \in 1..Len(GenSteps) }

GenIndex(step) == CHOOSE i \in 1..Len(GenSteps) : GenSteps[i] = step

AfterGenStep(step) ==
    IF GenIndex(step) = Len(GenSteps) THEN "end"
    ELSE GenSteps[GenIndex(step) + 1]

GenDone(step) == \E i \in 1..Len(gen_done) : gen_done[i] = step

InitGenerate ==
    /\ gen_pc = "generate"
    /\ gen_row \in GenRows
    /\ churn_probability = -1
    /\ gen_churned = FALSE
    /\ gen_done = <<>>
    /\ gen_failed = "none"
    /\ gen_db \in {"absent", "previous"}
    /\ gen_csv \in {"absent", "previous"}
    /\ gen_out = {}
    /\ gen_exit = "running"
    /\ IdleMigrate
    /\ IdleTrain
    /\ IdleFunctions
    /\ IdleDashboard

\* lines 9-48: the population is drawn, the churn probability computed and
\* churned sampled as random() < p with random() in [0, 1).
GenGenerate ==
    /\ gen_pc = "generate"
    /\ churn_probability' = ChurnProbability(gen_row)
    /\ gen_churned' \in { b \in BOOLEAN : b => churn_probability' > 0 }
    /\ gen_out' = gen_out \cup {"generated"}
    /\ gen_pc' = GenSteps[1]
    /\ UNCHANGED <<gen_row, gen_done, gen_failed, gen_db, gen_csv, gen_exit>>
    /\ UNCHANGED notGen

\* lines 51-64: one statement of the try block; it completes or raises. A
\* to_sql(if_exists='replace') that raises leaves the table as it was or dropped.
GenStep ==
    /\ gen_pc \in GenStepSet
    /\ \/ /\ gen_done' = Append(gen_done, gen_pc)
          /\ gen_db' = IF gen_pc = "to_sql" THEN "this_run" ELSE gen_db
          /\ gen_out' = gen_out \cup
                           (CASE gen_pc = "to_sql" -> {"loaded"}
                              [] gen_pc = "verify" -> {"verified"}
                              [] OTHER             -> {})
          /\ gen_pc' = AfterGenStep(gen_pc)
          /\ UNCHANGED gen_failed
       \/ /\ gen_failed' = gen_pc
          /\ gen_db' \in IF gen_pc = "to_sql" THEN {gen_db, "absent"} ELSE {gen_db}
          /\ gen_pc' = "except"
          /\ UNCHANGED <<gen_done, gen_out>>
    /\ UNCHANGED <<gen_row, churn_probability, gen_churned, gen_csv, gen_exit>>
    /\ UNCHANGED notGen

\* lines 66-70: any exception of the try block is reported as a connection
\* failure and the data saved to customers_data.csv; a to_csv that raises is
\* not handled.
GenExcept ==
    /\ gen_pc = "except"
    /\ \/ /\ gen_csv' = "this_run"
          /\ gen_out' = gen_out \cup {"connection_failed", "saving_csv", "csv_saved"}
          /\ gen_pc' = "end"
          /\ UNCHANGED gen_exit
       \/ /\ gen_csv' \in {gen_csv, "partial"}
          /\ gen_out' = gen_out \cup {"connection_failed", "saving_csv", "traceback"}
          /\ gen_exit' = "1"
          /\ gen_pc' = "exited"
    /\ UNCHANGED <<gen_row, churn_probability, gen_churned, gen_done, gen_failed, gen_db>>
    /\ UNCHANGED notGen

\* line 70: the end of the script; the interpreter exits 0.
GenEnd ==
    /\ gen_pc = "end"
    /\ gen_exit' = "0"
    /\ gen_pc' = "exited"
    /\ UNCHANGED <<gen_row, churn_probability, gen_churned, gen_done, gen_failed,
                   gen_db, gen_csv, gen_out>>
    /\ UNCHANGED notGen

NextGenerate ==
    \/ GenGenerate
    \/ GenStep
    \/ GenExcept
    \/ GenEnd

SpecGenerate == InitGenerate /\ [][NextGenerate]_vars

\* C5: in a run where writing the customers table succeeded, customers_data.csv
\* is not written by that run, whatever happens in the later statements.
C5_CsvOnlyWhenWriteFailed ==
    GenDone("to_sql") =>
        (gen_csv \notin {"this_run", "partial"} /\ "saving_csv" \notin gen_out)

\* C10: for every combination of the inputs the churn probability is
\* 0.1 + 0.3[Month-to-month] + 0.2[Electronic check] + 0.15[tenure < 12]
\* + 0.1[charges > 80] - 0.2[security = Yes] - 0.15[support = Yes], brought
\* back into [0, 0.8] (in hundredths: into 0..80).
C10_ChurnProbabilityClamped ==
    gen_pc \notin {"off", "generate"} =>
        LET sum == 10
                   + (IF gen_row.contract_type = "Month-to-month" THEN 30 ELSE 0)
                   + (IF gen_row.payment_method = "Electronic check" THEN 20 ELSE 0)
                   + (IF gen_row.tenure < 12 THEN 15 ELSE 0)
                   + (IF gen_row.monthly_charges > 8000 THEN 10 ELSE 0)
                   - (IF gen_row.online_security = "Yes" THEN 20 ELSE 0)
                   - (IF gen_row.tech_support = "Yes" THEN 15 ELSE 0)
        IN  /\ churn_probability \in 0..80
            /\ sum < 0 => churn_probability = 0
            /\ sum > 80 => churn_probability = 80
            /\ sum \in 0..80 => churn_probability = sum

\* Both ends of the clamp are reached: the largest sum (0.85) and a negative one.
C10_Witness ==
    /\ gen_pc = "exited"
    /\ churn_probability = 80
    /\ gen_row.contract_type = "Month-to-month"
    /\ gen_row.payment_method = "Electronic check"
    /\ gen_row.tenure < 12
    /\ gen_row.monthly_charges > 8000
    /\ gen_row.online_security # "Yes"
    /\ gen_row.tech_support # "Yes"

\* ---------------------------------------- dashboard.py: page computations
\* Largest count in a cell of the stored confusion matrix.
MaxCell == 2

\* --- Customer Segments page: pd.cut (lines 425-436)
TenureBins == <<0, 12, 36, 72>>

TenureLabels == <<"New (<1yr)", "Regular (1-3yr)", "Loyal (>3yr)">>

\* Monthly charges are in cents.
RevenueBins == <<0, 4000, 8000, 12000>>

RevenueLabels == <<"Low Value", "Medium Value", "High Value">>

LabelSet(labels) == { labels[i] : i \in 1..Len(labels) }

\* bins.searchsorted(x, side='left'): how many edges lie strictly below x.
SearchSortedLeft(bins, x) == Cardinality({ i \in 1..Len(bins) : bins[i] < x })

\* pd.cut(x, bins, labels) with the defaults right=True, include_lowest=False:
\* a value at or below the first edge, or above the last, gets NaN.
Cut(x, bins, labels) ==
    LET ids == SearchSortedLeft(bins, x)
    IN  IF ids = 0 \/ ids = Len(bins) THEN "NaN" ELSE labels[ids]

\* --- Model Performance page: derived metrics (lines 233-237)
\* A numpy float: a fraction num/den with den > 0, or nan, or inf.
Num(n, d) == [kind |-> "num", num |-> n, den |-> d]

NaN == [kind |-> "nan", num |-> 0, den |-> 1]

Inf == [kind |-> "inf", num |-> 1, den |-> 1]

\* numpy true division: 0/0 is nan and x/0 is inf (a warning, no exception).
FDiv(a, b) ==
    IF a.kind = "nan" \/ b.kind = "nan" THEN NaN
    ELSE IF a.kind = "inf" THEN (IF b.kind = "inf" THEN NaN ELSE Inf)
    ELSE IF b.kind = "inf" THEN Num(0, 1)
    ELSE IF b.num = 0 THEN (IF a.num = 0 THEN NaN ELSE Inf)
    ELSE Num(a.num * b.den, a.den * b.num)

FMul(a, b) ==
    IF a.kind = "nan" \/ b.kind = "nan" THEN NaN
    ELSE IF a.kind = "inf" \/ b.kind = "inf"
         THEN (IF (a.kind = "num" /\ a.num = 0) \/ (b.kind = "num" /\ b.num = 0)
               THEN NaN ELSE Inf)
    ELSE Num(a.num * b.num, a.den * b.den)

FAdd(a, b) ==
    IF a.kind = "nan" \/ b.kind = "nan" THEN NaN
    ELSE IF a.kind = "inf" \/ b.kind = "inf" THEN Inf
    ELSE Num(a.num * b.den + b.num * a.den, a.den * b.den)

\* The confusion matrices model_metrics.json can hold: [[tn, fp], [fn, tp]].
ConfusionMatrices ==
    { << <<tn, fp>>, <<fn, tp>> >> :
          tn \in 0..MaxCell, fp \in 0..MaxCell, fn \in 0..MaxCell, tp \in 0..MaxCell }

\* cm.ravel()
Ravel(cm) == << cm[1][1], cm[1][2], cm[2][1], cm[2][2] >>

\* lines 234-237
DerivedMetrics(cm) ==
    LET r  == Ravel(cm)
        fp == r[2]
        fn == r[3]
        tp == r[4]
        precision == FDiv(Num(tp, 1), Num(tp + fp, 1))
        recall    == FDiv(Num(tp, 1), Num(tp + fn, 1))
        f1 == FDiv(FMul(Num(2, 1), FMul(precision, recall)), FAdd(precision, recall))
    IN  [precision |-> precision, recall |-> recall, f1 |-> f1]

\* --- Make Prediction page: the form and its encoding (lines 287-331)
\* Positions of st.slider("Tenure (months)", 0, 72, 12) around the tests on tenure.
FormTenures == {0, 1, 11, 12, 72}

\* Positions of st.slider("Monthly Charges ($)", 20.0, 120.0, 70.0), in cents.
FormCharges == {2000, 7000, 8000, 8001, 12000}

\* Values of st.number_input("Total Charges ($)", 0.0, 10000.0, tenure * monthly_charges),
\* in cents.
FormTotals(tenure, monthly_charges) == {0, tenure * monthly_charges, 1000000}

FormContracts == {"Month-to-month", "One year", "Two year"}

FormPayments == {"Electronic check", "Mailed check", "Bank transfer", "Credit card"}

Forms ==
    { f \in [tenure : FormTenures, monthly_charges : FormCharges,
             total_charges : {0, 1000000} \cup
                             { t * m : t \in FormTenures, m \in FormCharges },
             contract_type : FormContracts, payment_method : FormPayments,
             has_fiber : BOOLEAN, has_online_security : BOOLEAN,
             has_tech_support : BOOLEAN, has_streaming : BOOLEAN,
             paperless_billing : BOOLEAN] :
        f.total_charges \in FormTotals(f.tenure, f.monthly_charges) }

\* 1 if cond else 0
OneIf(cond) == IF cond THEN 1 ELSE 0

EncodeFeaturesYearlyAsTwoYear(f) ==
    [tenure |-> f.tenure,
     monthly_charges |-> f.monthly_charges,
     total_charges |-> f.total_charges,
     is_monthly_contract |-> OneIf(f.contract_type = "Month-to-month"),
     is_yearly_contract |-> OneIf(f.contract_type = "Two year"),
     is_two_year_contract |-> OneIf(f.contract_type = "Two year"),
     payment_electronic_check |-> OneIf(f.payment_method = "Electronic check"),
     payment_bank_transfer |-> OneIf(f.payment_method = "Bank transfer"),
     payment_credit_card |-> OneIf(f.payment_method = "Credit card"),
     has_fiber |-> OneIf(f.has_fiber),
     has_online_security |-> OneIf(f.has_online_security),
     has_tech_support |-> OneIf(f.has_tech_support),
     has_streaming |-> OneIf(f.has_streaming),
     paperless_billing |-> OneIf(f.paperless_billing),
     avg_monthly_spend |-> IF f.tenure > 0
                           THEN FDiv(Num(f.total_charges, 1), Num(f.tenure, 1))
                           ELSE Num(0, 1),
     is_new_customer |-> OneIf(f.tenure < 12),
     is_high_spender |-> OneIf(f.monthly_charges > 8000)]

EncodeFeaturesUnguarded(f) ==
    [EncodeFeaturesYearlyAsTwoYear(f) EXCEPT
        !.is_yearly_contract = OneIf(f.contract_type = "One year"),
        !.avg_monthly_spend = FDiv(Num(f.total_charges, 1), Num(f.tenure, 1))]

\* lines 313-331
EncodeFeatures(f) ==
    [tenure |-> f.tenure,
     monthly_charges |-> f.monthly_charges,
     total_charges |-> f.total_charges,
     is_monthly_contract |-> OneIf(f.contract_type = "Month-to-month"),
     is_yearly_contract |-> OneIf(f.contract_type = "One year"),
     is_two_year_contract |-> OneIf(f.contract_type = "Two year"),
     payment_electronic_check |-> OneIf(f.payment_method = "Electronic check"),
     payment_bank_transfer |-> OneIf(f.payment_method = "Bank transfer"),
     payment_credit_card |-> OneIf(f.payment_method = "Credit card"),
     has_fiber |-> OneIf(f.has_fiber),
     has_online_security |-> OneIf(f.has_online_security),
     has_tech_support |-> OneIf(f.has_tech_support),
     has_streaming |-> OneIf(f.has_streaming),
     paperless_billing |-> OneIf(f.paperless_billing),
     avg_monthly_spend |-> IF f.tenure > 0
                           THEN FDiv(Num(f.total_charges, 1), Num(f.tenure, 1))
                           ELSE Num(0, 1),
     is_new_customer |-> OneIf(f.tenure < 12),
     is_high_spender |-> OneIf(f.monthly_charges > 8000)]

\* recommendations.append(text) when cond holds
AppendIf(recs, cond, text) == IF cond THEN Append(recs, text) ELSE recs

RecommendationsTenureInclusive(f) ==
    LET r1 == AppendIf(<<>>, f.contract_type = "Month-to-month", "long_term_contract")
        r2 == AppendIf(r1, f.payment_method = "Electronic check", "automatic_payment")
        r3 == AppendIf(r2, f.tenure <= 12, "onboarding_support")
        r4 == AppendIf(r3, ~f.has_online_security, "online_security")
        r5 == AppendIf(r4, ~f.has_tech_support, "tech_support_trial")
        r6 == AppendIf(r5, f.monthly_charges > 8000, "pricing_review")
    IN  r6

\* lines 389-407
Recommendations(f) ==
    LET r1 == AppendIf(<<>>, f.contract_type = "Month-to-month", "long_term_contract")
        r2 == AppendIf(r1, f.payment_method = "Electronic check", "automatic_payment")
        r3 == AppendIf(r2, f.tenure < 12, "onboarding_support")
        r4 == AppendIf(r3, ~f.has_online_security, "online_security")
        r5 == AppendIf(r4, ~f.has_tech_support, "tech_support_trial")
        r6 == AppendIf(r5, f.monthly_charges > 8000, "pricing_review")
    IN  r6

\* lines 385-415: what the recommendations section renders.
RenderRecommendations(f, prediction) ==
    IF prediction = 1
    THEN [items |-> IF Recommendations(f) # <<>>
                    THEN Recommendations(f)
                    ELSE <<"monitor_engagement">>,
          stable |-> FALSE]
    ELSE [items |-> <<>>, stable |-> TRUE]

\* lines 311-415: what a submitted form yields, the classifier having
\* answered `prediction`.
Predict(f, prediction) ==
    [features |-> EncodeFeatures(f),
     prediction |-> prediction,
     recommendations |-> RenderRecommendations(f, prediction)]

\* --- each computation applied to one input
FnCalls ==
    { [fn |-> "tenure_segment", arg |-> t] : t \in 0..72 }
    \cup { [fn |-> "revenue_segment", arg |-> c] : c \in 0..12000 }
    \cup { [fn |-> "derived_metrics", arg |-> cm] : cm \in ConfusionMatrices }
    \cup { [fn |-> "predict", arg |-> [form |-> f, prediction |-> y]] :
               f \in Forms, y \in {0, 1} }

InitFunctions ==
    /\ fn_pc = "called"
    /\ fn_call \in FnCalls
    /\ fn_result = <<>>
    /\ IdleMigrate
    /\ IdleTrain
    /\ IdleGenerate
    /\ IdleDashboard

FnReturn(value) ==
    /\ fn_pc = "called"
    /\ fn_result' = <<value>>
    /\ fn_pc' = "returned"
    /\ UNCHANGED fn_call
    /\ UNCHANGED notFn

\* lines 426-430
CutTenure ==
    /\ fn_call.fn = "tenure_segment"
    /\ FnReturn(Cut(fn_call.arg, TenureBins, TenureLabels))

\* lines 432-436
CutRevenue ==
    /\ fn_call.fn = "revenue_segment"
    /\ FnReturn(Cut(fn_call.arg, RevenueBins, RevenueLabels))

\* lines 233-237
ComputeDerivedMetrics ==
    /\ fn_call.fn = "derived_metrics"
    /\ FnReturn(DerivedMetrics(fn_call.arg))

\* lines 311-415
ComputePrediction ==
    /\ fn_call.fn = "predict"
    /\ FnReturn(Predict(fn_call.arg.form, fn_call.arg.prediction))

NextFunctions ==
    \/ CutTenure
    \/ CutRevenue
    \/ ComputeDerivedMetrics
    \/ ComputePrediction

SpecFunctions == InitFunctions /\ [][NextFunctions]_vars

Returned(fn) == fn_pc = "returned" /\ fn_call.fn = fn

\* C7: every tenure in 0..72 is assigned one of the three tenure segments and
\* every monthly charge in [0, 120] one of the three revenue segments.
C7_SegmentsExhaustive ==
    /\ Returned("tenure_segment") => fn_result[1] \in LabelSet(TenureLabels)
    /\ Returned("revenue_segment") => fn_result[1] \in LabelSet(RevenueLabels)

\* A fraction in [0, 1].
InUnitInterval(x) == x.kind = "num" /\ x.den > 0 /\ 0 <= x.num /\ x.num <= x.den

\* C9: for every stored confusion matrix of non-negative counts, precision,
\* recall and F1 are each a number in [0, 1]; an undefined value is reported
\* as 0 or flagged, never the result of a division by zero.
C9_DerivedMetricsInUnitInterval ==
    Returned("derived_metrics") =>
        /\ InUnitInterval(fn_result[1].precision)
        /\ InUnitInterval(fn_result[1].recall)
        /\ InUnitInterval(fn_result[1].f1)

\* The contract type and payment method the indicators of a feature vector stand for.
DecodeContract(x) ==
    { c \in FormContracts :
        \/ c = "Month-to-month" /\ x.is_monthly_contract = 1
        \/ c = "One year" /\ x.is_yearly_contract = 1
        \/ c = "Two year" /\ x.is_two_year_contract = 1 }

DecodePayment(x) ==
    IF x.payment_electronic_check + x.payment_bank_transfer + x.payment_credit_card = 0
    THEN {"Mailed check"}
    ELSE { m \in FormPayments :
             \/ m = "Electronic check" /\ x.payment_electronic_check = 1
             \/ m = "Bank transfer" /\ x.payment_bank_transfer = 1
             \/ m = "Credit card" /\ x.payment_credit_card = 1 }

\* C8: for every canonical contract type and payment method the encoding sets
\* exactly one contract indicator and at most one payment indicator (none
\* exactly for 'Mailed check'), and decoding the indicators gives back the
\* contract type and the payment method.
C8_EncodingRoundTrip ==
    Returned("predict") =>
        LET f == fn_call.arg.form
            x == fn_result[1].features
            payments == x.payment_electronic_check + x.payment_bank_transfer
                        + x.payment_credit_card
        IN  /\ x.is_monthly_contract + x.is_yearly_contract + x.is_two_year_contract = 1
            /\ payments <= 1
            /\ payments = 0 <=> f.payment_method = "Mailed check"
            /\ DecodeContract(x) = {f.contract_type}
            /\ DecodePayment(x) = {f.payment_method}

C8_Witness ==
    /\ Returned("predict")
    /\ fn_call.arg.form.payment_method = "Mailed check"
    /\ fn_call.arg.form.contract_type = "One year"
    /\ fn_result[1].features.is_yearly_contract = 1
    /\ fn_result[1].features.payment_electronic_check = 0

\* C11: in the feature vector of the prediction form, avg_monthly_spend is 0
\* whenever tenure = 0 and equals total_charges / tenure for every tenure of
\* 1..72; no form input leads to a division by zero (the value is always a
\* finite number).
C11_AvgMonthlySpend ==
    Returned("predict") =>
        LET f == fn_call.arg.form
            avg == fn_result[1].features.avg_monthly_spend
        IN  /\ avg.kind = "num"
            /\ avg.den > 0
            /\ f.tenure = 0 => avg.num = 0
            /\ f.tenure \in 1..72 => avg.num * f.tenure = f.total_charges * avg.den

\* A form with tenure 0 and a non-zero total typed in.
C11_Witness ==
    /\ Returned("predict")
    /\ fn_call.arg.form.tenure = 0
    /\ fn_call.arg.form.total_charges = 1000000
    /\ fn_result[1].features.avg_monthly_spend = Num(0, 1)

\* ------------------------------------------- dashboard.py: the process
\* Execution passes of the script in one run of the process.
MaxPasses == 3

\* Rows in a relation of the database.
MaxRows == 2

Pages == {"overview", "performance", "prediction", "segments"}

CustomerIds == 1..MaxRows

\* Tenure and monthly charges (in cents) of the stored customers: one at the
\* lowest edge of both segmentations, the others inside them.
TenureOf(id) == IF id = 1 THEN 0 ELSE 12 * id

ChargesOf(id) == IF id = 1 THEN 2000 ELSE 4000 * id + 1

CustomerRows ==
    { [customer_id |-> id, churned |-> c, tenure |-> TenureOf(id),
       monthly_charges |-> ChargesOf(id)] : id \in CustomerIds, c \in BOOLEAN }

\* What the classifier answers for a row of ml_features, in hundredths: the
\* threshold of the high-risk filter and the next value above it.
Scores == {60, 61}

\* A row of ml_features stands for its features by the score they get.
FeatureRows == [customer_id : CustomerIds, score : Scores]

\* The results a SELECT without ORDER BY can return: at most MaxRows rows,
\* one per customer, in any order.
QueryResults(rows) ==
    { t \in UNION { [1..n -> rows] : n \in 0..MaxRows } :
        \A i, j \in DOMAIN t : i # j => t[i].customer_id # t[j].customer_id }

\* The confusion matrices of the metrics reports the process is run with.
DashMatrices == { << <<0, 0>>, <<0, 0>> >>, << <<1, 0>>, <<1, 1>> >> }

\* The form values the operator submits.
DashForms ==
    { NoForm,
      [tenure |-> 12, monthly_charges |-> 7000, total_charges |-> 84000,
       contract_type |-> "One year", payment_method |-> "Mailed check",
       has_fiber |-> FALSE, has_online_security |-> TRUE, has_tech_support |-> TRUE,
       has_streaming |-> FALSE, paperless_billing |-> FALSE] }

InitDashboard ==
    /\ dash_pc = "idle"
    /\ passes = 0
    /\ widgets = [page |-> "overview", form |-> NoForm, button |-> FALSE]
    /\ ui = {}
    /\ pass_result = "none"
    /\ failed_load = "none"
    /\ art_cache = [loaded |-> FALSE, metrics |-> NoMatrix]
    /\ data_cache = [loaded |-> FALSE, df_customers |-> EmptyFrame, df_ml |-> <<>>]
    /\ art_loads = 0
    /\ db_queries = 0
    /\ metrics = NoMatrix
    /\ df_customers = EmptyFrame
    /\ df_ml = <<>>
    /\ page_out = <<>>
    /\ segment_passes = 0
    /\ IdleMigrate
    /\ IdleTrain
    /\ IdleGenerate
    /\ IdleFunctions

\* What the operator can do with the page the last pass left on screen: ask
\* for a rerun; with the navigation panel drawn, select a page; with the form
\* drawn, change its values or press the button.
Interactions ==
    { [page |-> widgets.page, form |-> widgets.form, button |-> FALSE] }
    \cup { [page |-> pg, form |-> widgets.form, button |-> FALSE] :
               pg \in IF "sidebar" \in ui THEN Pages ELSE {} }
    \cup { [page |-> widgets.page, form |-> f, button |-> FALSE] :
               f \in IF "prediction" \in ui THEN DashForms ELSE {} }
    \cup { [page |-> widgets.page, form |-> widgets.form, button |-> b] :
               b \in IF "prediction" \in ui THEN {TRUE} ELSE {} }

\* The script is executed from the top: at launch, and again on every
\* interaction. Widget values live in the session; the script's globals
\* start afresh.
DashStartPass ==
    /\ dash_pc = "idle"
    /\ passes < MaxPasses
    /\ passes' = passes + 1
    /\ IF passes = 0
       THEN widgets' = widgets
       ELSE widgets' \in Interactions
    /\ ui' = {}
    /\ pass_result' = "running"
    /\ failed_load' = "none"
    /\ metrics' = NoMatrix
    /\ df_customers' = EmptyFrame
    /\ df_ml' = <<>>
    /\ page_out' = <<>>
    /\ dash_pc' = "load_artifacts"
    /\ UNCHANGED <<art_cache, data_cache, art_loads, db_queries, segment_passes>>
    /\ UNCHANGED notDash

CacheHitNever(entry) == FALSE

CacheSharedWithCaller(cache, frame) == [cache EXCEPT !.df_customers = frame]

\* @st.cache_data (line 47) keeps the returned frames serialized and hands a
\* fresh copy to every call: what the script then does to its df_customers
\* (lines 426-436) does not reach the entry.
CacheAfterMutation(cache, frame) == cache

\* @st.cache_resource (line 30) and @st.cache_data (line 47): the functions
\* take no argument, so each has one cache entry; neither decorator sets a
\* ttl or max_entries. A call is served from the entry once it is filled.
CacheHit(entry) == entry.loaded

AfterStopIgnored(continuation) == continuation

\* st.stop() (lines 45 and 66): the pass ends there, whatever would follow.
AfterStop(continuation) == "idle"

\* lines 30-45 and 72: a cached result is reused; otherwise the body runs. It
\* returns the artifacts, or a FileNotFoundError is caught (error panel,
\* st.stop()), or another exception leaves the script uncaught, which the
\* Streamlit runtime shows in place of the rest of the page.
DashLoadArtifacts ==
    /\ dash_pc = "load_artifacts"
    /\ IF CacheHit(art_cache)
       THEN /\ metrics' = art_cache.metrics
            /\ dash_pc' = "load_data"
            /\ UNCHANGED <<art_cache, art_loads, ui, pass_result, failed_load>>
       ELSE /\ art_loads' = art_loads + 1
            /\ \/ \E cm \in DashMatrices :
                     /\ art_cache' = [loaded |-> TRUE, metrics |-> cm]
                     /\ metrics' = cm
                     /\ dash_pc' = "load_data"
                     /\ UNCHANGED <<ui, pass_result, failed_load>>
               \/ /\ failed_load' = "artifacts"
                  /\ ui' = ui \cup {"artifact_error"}
                  /\ dash_pc' = AfterStop("load_data")
                  /\ pass_result' = IF dash_pc' = "idle" THEN "stopped" ELSE pass_result
                  /\ UNCHANGED <<art_cache, metrics>>
               \/ /\ failed_load' = "artifacts"
                  /\ ui' = ui \cup {"exception"}
                  /\ dash_pc' = "idle"
                  /\ pass_result' = "exception"
                  /\ UNCHANGED <<art_cache, metrics>>
    /\ UNCHANGED <<segment_passes, passes, widgets, data_cache, db_queries, df_customers,
                   df_ml, page_out>>
    /\ UNCHANGED notDash

\* lines 47-66 and 73: a cached result is handed out as a copy; otherwise the
\* body runs both queries. Any exception is caught (error panel, hint,
\* st.stop()).
DashLoadData ==
    /\ dash_pc = "load_data"
    /\ IF CacheHit(data_cache)
       THEN /\ df_customers' = data_cache.df_customers
            /\ df_ml' = data_cache.df_ml
            /\ dash_pc' = "sidebar"
            /\ UNCHANGED <<data_cache, db_queries, ui, pass_result, failed_load>>
       ELSE /\ db_queries' = db_queries + 1
            /\ \/ \E c \in QueryResults(CustomerRows), m \in QueryResults(FeatureRows) :
                     LET frame == [rows |-> c, has_segments |-> FALSE, segments |-> <<>>]
                     IN  /\ data_cache' = [loaded |-> TRUE, df_customers |-> frame,
                                           df_ml |-> m]
                         /\ df_customers' = frame
                         /\ df_ml' = m
                         /\ dash_pc' = "sidebar"
                         /\ UNCHANGED <<ui, pass_result, failed_load>>
               \/ /\ failed_load' = "data"
                  /\ ui' = ui \cup {"db_error", "db_hint"}
                  /\ dash_pc' = AfterStop("sidebar")
                  /\ pass_result' = IF dash_pc' = "idle" THEN "stopped" ELSE pass_result
                  /\ UNCHANGED <<data_cache, df_customers, df_ml>>
    /\ UNCHANGED <<segment_passes, passes, widgets, art_cache, art_loads, metrics, page_out>>
    /\ UNCHANGED notDash

\* lines 79-90
DashSidebar ==
    /\ dash_pc = "sidebar"
    /\ ui' = ui \cup {"sidebar"}
    /\ dash_pc' = "page"
    /\ UNCHANGED <<segment_passes, passes, widgets, pass_result, failed_load, art_cache, data_cache,
                   art_loads, db_queries, metrics, df_customers, df_ml, page_out>>
    /\ UNCHANGED notDash

CountChurned(rows) == Cardinality({ i \in 1..Len(rows) : rows[i].churned })

\* lines 96-118: the headline numbers of the Overview page.
OverviewMetrics(df) ==
    [total_customers |-> Len(df.rows),
     churned_customers |-> CountChurned(df.rows),
     churn_rate |-> FMul(FDiv(Num(CountChurned(df.rows), 1), Num(Len(df.rows), 1)),
                         Num(100, 1))]

\* lines 96-184
DashOverview ==
    /\ dash_pc = "page"
    /\ widgets.page = "overview"
    /\ ui' = ui \cup {"overview"}
    /\ page_out' = <<OverviewMetrics(df_customers)>>
    /\ dash_pc' = "idle"
    /\ pass_result' = "rendered"
    /\ UNCHANGED <<segment_passes, passes, widgets, failed_load, art_cache, data_cache, art_loads,
                   db_queries, metrics, df_customers, df_ml>>
    /\ UNCHANGED notDash

\* lines 190-271
DashPerformance ==
    /\ dash_pc = "page"
    /\ widgets.page = "performance"
    /\ ui' = ui \cup {"performance"}
    /\ page_out' = <<DerivedMetrics(metrics)>>
    /\ dash_pc' = "idle"
    /\ pass_result' = "rendered"
    /\ UNCHANGED <<segment_passes, passes, widgets, failed_load, art_cache, data_cache, art_loads,
                   db_queries, metrics, df_customers, df_ml>>
    /\ UNCHANGED notDash

\* lines 277-415: the form is drawn; when the button was pressed the
\* classifier answers 0 or 1 and the result is rendered.
DashPrediction ==
    /\ dash_pc = "page"
    /\ widgets.page = "prediction"
    /\ IF widgets.button
       THEN \E y \in {0, 1} :
               /\ ui' = ui \cup {"prediction", "prediction_result"}
               /\ page_out' = <<Predict(widgets.form, y)>>
       ELSE /\ ui' = ui \cup {"prediction"}
            /\ page_out' = <<>>
    /\ dash_pc' = "idle"
    /\ pass_result' = "rendered"
    /\ UNCHANGED <<segment_passes, passes, widgets, failed_load, art_cache, data_cache, art_loads,
                   db_queries, metrics, df_customers, df_ml>>
    /\ UNCHANGED notDash

\* lines 426-436: the two segment columns are added to df_customers.
AddSegments(df) ==
    [rows |-> df.rows,
     has_segments |-> TRUE,
     segments |-> [i \in 1..Len(df.rows) |->
                     [tenure_segment |-> Cut(df.rows[i].tenure, TenureBins, TenureLabels),
                      revenue_segment |-> Cut(df.rows[i].monthly_charges, RevenueBins,
                                              RevenueLabels)]]]

\* lines 513-515: one probability per row of df_ml, in its order.
ChurnProbabilities(ml) == [i \in 1..Len(ml) |-> ml[i].score]

\* scaler.transform rejects an empty matrix (line 514) and the column
\* assignment rejects a length other than the frame's (line 519).
ScoringRaises(df, ml) == Len(ml) = 0 \/ Len(ml) # Len(df.rows)

\* lines 518-519: the probabilities are attached by position.
DfRisk(df, probabilities) ==
    [i \in 1..Len(df.rows) |->
        [customer_id |-> df.rows[i].customer_id,
         churned |-> df.rows[i].churned,
         tenure |-> df.rows[i].tenure,
         monthly_charges |-> df.rows[i].monthly_charges,
         churn_probability |-> probabilities[i]]]

IsHighRiskAtThreshold(r) == r.churned = FALSE /\ r.churn_probability >= 60

\* lines 522-525: the row filter.
IsHighRisk(r) == r.churned = FALSE /\ r.churn_probability > 60

\* The orders sort_values('churn_probability', ascending=False) can give: the
\* default sort is not stable, equal probabilities come in any order.
SortValuesDescending(s) ==
    IF s = <<>> THEN { <<>> }
    ELSE { t \in { [i \in 1..Len(s) |-> s[pi[i]]] : pi \in Permutations(1..Len(s)) } :
             \A i \in 1..(Len(s) - 1) : t[i].churn_probability >= t[i + 1].churn_probability }

\* lines 528-535: the first 20 rows, the probability shown as it is (in
\* hundredths it is the percentage).
HighRiskDisplay(s) == SubSeq(s, 1, IF Len(s) < 20 THEN Len(s) ELSE 20)

\* lines 421-543: the segment columns are added and the charts drawn; then
\* every row of df_ml is scored, and the page ends with the high-risk table or
\* with the exception the scoring raised.
DashSegments ==
    /\ dash_pc = "page"
    /\ widgets.page = "segments"
    /\ df_customers' = AddSegments(df_customers)
    /\ IF ScoringRaises(df_customers, df_ml)
       THEN /\ ui' = ui \cup {"segments", "exception"}
            /\ page_out' = <<>>
            /\ pass_result' = "exception"
       ELSE \E sorted \in SortValuesDescending(
                    SelectSeq(DfRisk(df_customers, ChurnProbabilities(df_ml)), IsHighRisk)) :
               /\ ui' = ui \cup {"segments", "high_risk"}
               /\ page_out' = <<[df_risk |-> DfRisk(df_customers, ChurnProbabilities(df_ml)),
                                 high_risk |-> sorted,
                                 high_risk_display |-> HighRiskDisplay(sorted),
                                 found |-> Len(sorted)]>>
               /\ pass_result' = "rendered"
    /\ data_cache' = CacheAfterMutation(data_cache, df_customers')
    /\ segment_passes' = segment_passes + 1
    /\ dash_pc' = "idle"
    /\ UNCHANGED <<passes, widgets, failed_load, art_cache, art_loads,
                   db_queries, metrics, df_ml>>
    /\ UNCHANGED notDash

NextDashboard ==
    \/ DashStartPass
    \/ DashLoadArtifacts
    \/ DashLoadData
    \/ DashSidebar
    \/ DashOverview
    \/ DashPerformance
    \/ DashPrediction
    \/ DashSegments

SpecDashboard == InitDashboard /\ [][NextDashboard]_vars

\* ------------------------------------------------------- the whole system
\* One of the programs is started; the others do not run.
Init ==
    \/ InitMigrate
    \/ InitTrain
    \/ InitGenerate
    \/ InitFunctions
    \/ InitDashboard

Next ==
    \/ NextMigrate
    \/ NextTrain
    \/ NextGenerate
    \/ NextFunctions
    \/ NextDashboard

Spec == Init /\ [][Next]_vars

PageElements == {"overview", "performance", "prediction", "prediction_result",
                 "segments", "high_risk"}

\* C2: every row of the high-risk result has churned = false and a scored
\* probability strictly above 0.6 (60 hundredths).
C2_HighRiskFilter ==
    "high_risk" \in ui =>
        \A i \in 1..Len(page_out[1].high_risk) :
            /\ page_out[1].high_risk[i].churned = FALSE
            /\ page_out[1].high_risk[i].churn_probability > 60

\* Of two customers scored above 0.6 the churned one is left out and the
\* other is the high-risk result.
C2_Witness ==
    /\ "high_risk" \in ui
    /\ Len(df_customers.rows) = 2
    /\ Len(page_out[1].high_risk) = 1
    /\ \E i \in 1..2 : df_customers.rows[i].churned /\ df_ml[i].score = 61
    /\ \E i \in 1..2 : ~df_customers.rows[i].churned /\ df_ml[i].score = 61

\* C3: in a pass where the artifact load or the data load failed, an error is
\* shown and rendering halts: neither the navigation panel nor any page is
\* rendered in that pass, and the pass has ended with the script waiting for
\* the next interaction.
C3_FailedLoadHaltsRendering ==
    failed_load # "none" =>
        /\ ui \cap {"artifact_error", "db_error", "exception"} # {}
        /\ "sidebar" \notin ui
        /\ ui \cap PageElements = {}
        /\ page_out = <<>>
        /\ dash_pc = "idle"
        /\ pass_result \in {"stopped", "exception"}

\* The data load fails in a pass after the artifacts were served from the cache.
C3_Witness ==
    /\ failed_load = "data"
    /\ art_cache.loaded
    /\ passes = 2
    /\ "db_error" \in ui
    /\ dash_pc = "idle"

\* C12: once a pass has loaded both the artifacts and the data, every later
\* step of the process, whatever pages are selected and forms submitted,
\* reuses the cached results: the body of neither loader runs again (no
\* further read of the artifact files, no further query of the database) and
\* neither cache entry is changed or dropped.
C12_CachedLoadsReused ==
    [][ (art_cache.loaded /\ data_cache.loaded) =>
            /\ art_loads' = art_loads
            /\ db_queries' = db_queries
            /\ art_cache' = art_cache
            /\ data_cache' = data_cache ]_vars

\* C12 as stated: with both results cached, the artifact files have been read
\* and the database has been queried exactly once in the process.
C12_AsStated ==
    (art_cache.loaded /\ data_cache.loaded) => (art_loads = 1 /\ db_queries = 1)

\* Both loads succeeded in the first pass; the prediction page was selected in
\* the second pass and its form submitted in the third, with one execution of
\* each loader in all.
C12_Witness ==
    /\ passes = 3
    /\ dash_pc = "idle"
    /\ art_cache.loaded
    /\ data_cache.loaded
    /\ art_loads = 1
    /\ db_queries = 1
    /\ "prediction_result" \in ui

\* C13: the source connection string is made of the fixed user 'postgres',
\* host 'localhost' and database 'churn_db' and of the password typed at the
\* first prompt: whatever was typed, it is the password the source database
\* is connected with.
C13_SourceUsesTypedPassword ==
    (mig_attempted # <<>> /\ mig_attempted[1] = "connect_source") =>
        source_url = [user |-> "postgres", password |-> source_password,
                      host |-> "localhost", database |-> "churn_db"]

\* The items of a rendered list, as a set.
ItemSet(items) == { items[i] : i \in 1..Len(items) }

\* C14: for every submitted form, when the prediction is churn at least one
\* retention action is rendered, each of the six specific actions is rendered
\* (once) exactly when its condition holds (month-to-month contract;
\* electronic check; tenure < 12; no online security; no tech support;
\* monthly charges > 80), and the generic monitoring action exactly when none
\* of the six holds; when the prediction is no churn, no action item is
\* rendered, only the stability message.
C14_Recommendations ==
    Returned("predict") =>
        LET f == fn_call.arg.form
            r == fn_result[1].recommendations
            shown == ItemSet(r.items)
            conds == [long_term_contract |-> f.contract_type = "Month-to-month",
                      automatic_payment  |-> f.payment_method = "Electronic check",
                      onboarding_support |-> f.tenure < 12,
                      online_security    |-> ~f.has_online_security,
                      tech_support_trial |-> ~f.has_tech_support,
                      pricing_review     |-> f.monthly_charges > 8000]
        IN  IF fn_call.arg.prediction = 1
            THEN /\ Len(r.items) >= 1
                 /\ Cardinality(shown) = Len(r.items)
                 /\ shown \subseteq DOMAIN conds \cup {"monitor_engagement"}
                 /\ \A a \in DOMAIN conds : a \in shown <=> conds[a]
                 /\ "monitor_engagement" \in shown <=> \A a \in DOMAIN conds : ~conds[a]
                 /\ ~r.stable
            ELSE /\ r.items = <<>>
                 /\ r.stable

\* A churn prediction for a customer none of the six conditions applies to,
\* at the edge of two of them (tenure 12, charges of exactly 80): only the
\* generic action is rendered.
C14_Witness ==
    /\ Returned("predict")
    /\ fn_call.arg.prediction = 1
    /\ fn_call.arg.form.tenure = 12
    /\ fn_call.arg.form.monthly_charges = 8000
    /\ fn_call.arg.form.contract_type = "Two year"
    /\ fn_call.arg.form.payment_method = "Credit card"
    /\ fn_call.arg.form.has_online_security
    /\ fn_call.arg.form.has_tech_support
    /\ fn_result[1].recommendations.items = <<"monitor_engagement">>

\* C15: on the Customer Segments page the churn probability attached to each
\* customer row is the one scored from the row of ml_features with the same
\* customer_id, whatever the order and the number of the rows the two queries
\* returned. Stated for the passes where both relations hold the same
\* customers, so that every customer row has a row to be scored from.
C15_ProbabilityJoinedOnCustomerId ==
    ("high_risk" \in ui
       /\ { df_ml[j].customer_id : j \in 1..Len(df_ml) }
            = { df_customers.rows[i].customer_id : i \in 1..Len(df_customers.rows) }) =>
        \A i \in 1..Len(page_out[1].df_risk) :
            \E j \in 1..Len(df_ml) :
                /\ df_ml[j].customer_id = page_out[1].df_risk[i].customer_id
                /\ df_ml[j].score = page_out[1].df_risk[i].churn_probability

\* C16: after a training run, completed or failed at any point, the four
\* artifacts on disk come from one and the same run: all four are as they
\* were before the run (a file of an earlier run, or none) or all four were
\* written by this run, never a mix and never a partly written file.
C16_ArtifactsFromOneRun ==
    train_pc = "exited" =>
        \/ \A f \in ArtifactFiles : artifacts[f] = "this_run"
        \/ \A f \in ArtifactFiles : artifacts[f] \in {"absent", "previous"}

\* C17: a migration run that ends with exit status 1 leaves no partial
\* success on the destination: either neither 'customers' nor 'ml_features'
\* holds the source's data or both do, whichever step failed.
C17_NoPartialDestination ==
    mig_exit = "1" =>
        \/ dest_db.customers = "migrated" /\ dest_db.ml_features = "migrated"
        \/ dest_db.customers # "migrated" /\ dest_db.ml_features # "migrated"

\* C18: nothing but the two cache entries is carried from one pass to the
\* next. A pass starts with fresh script globals, and the tenure_segment and
\* revenue_segment columns added while rendering the Customer Segments page
\* are neither in the cached customer data nor in the customer data of a
\* later pass before that pass renders its page.
C18_SegmentColumnsNotCarried ==
    /\ ~data_cache.df_customers.has_segments
    /\ dash_pc \in {"load_artifacts", "load_data", "sidebar", "page"} =>
           /\ ~df_customers.has_segments
           /\ df_customers.segments = <<>>
    /\ dash_pc = "load_artifacts" =>
           /\ df_customers = EmptyFrame
           /\ df_ml = <<>>
           /\ metrics = NoMatrix
           /\ page_out = <<>>
           /\ ui = {}

\* The Customer Segments page was rendered in the second pass and is about
\* to be rendered again in the third, from customer data without the columns.
C18_Witness ==
    /\ passes = 3
    /\ segment_passes = 1
    /\ dash_pc = "page"
    /\ widgets.page = "segments"
    /\ Len(df_customers.rows) = 2
    /\ ~df_customers.has_segments

====
